---- MODULE Spec2Model ----
(***************************************************************************)
(* A model of the statiq static-file handler (src/statiq.go, lines 1-371): *)
(* New builds a StatiqHandler from a Config, ServeHTTP answers one request *)
(* against the filesystem below the root.                                  *)
(*                                                                         *)
(* Strings the code takes apart are sequences of tokens: "/" separates the *)
(* segments of a URL path, "." separates the pieces of a file name, so     *)
(* "/sub/index.html" is <<"/", "sub", "/", "index", ".", "html">> and the   *)
(* segment ".." is <<".", ".">>.  path.Clean, path.Join, filepath.Ext and   *)
(* strings.HasPrefix are computed on these tokens.                         *)
(*                                                                         *)
(* Requests are plain GET requests: no Range and no conditional headers,   *)
(* so http.ServeContent always answers 200 with the whole content.  The    *)
(* served tree holds directories and regular files, no symbolic links.     *)
(* The older copy of the handler that the file also holds (lines 372-610)  *)
(* is modelled apart, under SpecLegacy.                                    *)
(***************************************************************************)
EXTENDS Naturals, Sequences, FiniteSets, TLC

VARIABLES fs, h, req, w, pf

vars == <<fs, h, req, w, pf>>

(***************************** bounds *************************************)

\* The longest request path, in segments.
MaxSegs == 2

\* The most redirects a client follows before it gives up.
MaxHops == 4

(***************************** tokens *************************************)

Sl == "/"

Dot == "."

SubDir == <<"sub">>

IndexHtml == <<"index", Dot, "html">>

IndexHtm == <<"index", Dot, "htm">>

Page404 == <<"404", Dot, "html">>

Readme == <<"README">>

Nope == <<"nope">>

DotDot == <<Dot, Dot>>

NoName == <<>>

(************************** strings and paths *****************************)

\* strings.HasPrefix(s, "/")
HasPrefixSlash(s) == Len(s) > 0 /\ s[1] = Sl

\* len(url) == 0 || url[len(url)-1] != '/'
LacksTrailingSlash(url) == Len(url) = 0 \/ url[Len(url)] # Sl

\* strings.Split(s, "/"): the segments between the separators, empty ones kept.
RECURSIVE SplitFrom(_, _, _)
SplitFrom(s, i, cur) ==
    IF i > Len(s) THEN <<cur>>
    ELSE IF s[i] = Sl THEN <<cur>> \o SplitFrom(s, i + 1, <<>>)
    ELSE SplitFrom(s, i + 1, Append(cur, s[i]))

Split(s) == SplitFrom(s, 1, <<>>)

\* path.Clean of a rooted path, as the list of its remaining segments: empty
\* and "." segments go, ".." removes the segment before it, and ".." at the
\* root goes ("/.." is "/").
RECURSIVE CleanFrom(_, _, _)
CleanFrom(segs, i, out) ==
    IF i > Len(segs) THEN out
    ELSE IF segs[i] = <<>> \/ segs[i] = <<Dot>> THEN CleanFrom(segs, i + 1, out)
    ELSE IF segs[i] = DotDot
         THEN CleanFrom(segs, i + 1,
                        IF Len(out) = 0 THEN out ELSE SubSeq(out, 1, Len(out) - 1))
    ELSE CleanFrom(segs, i + 1, Append(out, segs[i]))

CleanRooted(s) == CleanFrom(Split(s), 1, <<>>)

\* The rooted path string of a list of segments: "/" for none, else "/a/b".
RECURSIVE Rooted(_)
Rooted(segs) ==
    IF Len(segs) = 0 THEN <<>>
    ELSE <<Sl>> \o segs[1] \o Rooted(Tail(segs))

RootedPath(segs) == IF Len(segs) = 0 THEN <<Sl>> ELSE Rooted(segs)

\* path.Join(upath, index) for a rooted upath: Clean(upath + "/" + index).
PathJoin(upath, index) ==
    IF Len(index) = 0 THEN RootedPath(CleanRooted(upath))
    ELSE RootedPath(CleanRooted(upath \o <<Sl>> \o index))

\* The last index of "." in a name, 0 when there is none.
RECURSIVE LastDot(_, _)
LastDot(name, i) ==
    IF i = 0 THEN 0
    ELSE IF name[i] = Dot THEN i
    ELSE LastDot(name, i - 1)

\* filepath.Ext(name): the suffix from the last "." on, "" when there is none.
Ext(name) ==
    LET d == LastDot(name, Len(name))
    IN IF d = 0 THEN <<>> ELSE SubSeq(name, d, Len(name))

\* A place in the filesystem relative to the root: `up` levels above it,
\* then down `segs`.  filepath.Join(rootPath, rel) cleans the joined path, and
\* a ".." of rel beyond its own segments climbs above the root.
RECURSIVE JoinFrom(_, _, _, _)
JoinFrom(segs, i, up, out) ==
    IF i > Len(segs) THEN [up |-> up, segs |-> out]
    ELSE IF segs[i] = <<>> \/ segs[i] = <<Dot>> THEN JoinFrom(segs, i + 1, up, out)
    ELSE IF segs[i] = DotDot
         THEN IF Len(out) = 0 THEN JoinFrom(segs, i + 1, up + 1, out)
              ELSE JoinFrom(segs, i + 1, up, SubSeq(out, 1, Len(out) - 1))
    ELSE JoinFrom(segs, i + 1, up, Append(out, segs[i]))

FilepathJoin(rel) == JoinFrom(Split(rel), 1, 0, <<>>)

UnderRoot(segs) == [up |-> 0, segs |-> segs]

NoPlace == [up |-> 0, segs |-> <<<<"-">>>>]

(***************************** filesystem *********************************)

\* The places below the root that may hold a node; the root itself is always
\* a directory.
NodePaths ==
    { <<IndexHtml>>, <<Page404>>, <<SubDir>>,
      <<SubDir, IndexHtml>>, <<SubDir, IndexHtm>> }

\* What a node is: nothing, a directory, a readable regular file holding
\* bytes 1 or bytes 2, or a regular file without read permission.
Absent == [kind |-> "none", data |-> 0]

Directory == [kind |-> "dir", data |-> 0]

Locked == [kind |-> "locked", data |-> 0]

File(d) == [kind |-> "file", data |-> d]

KindsAt(p) ==
    IF p = <<IndexHtml>> THEN {Absent, File(1), File(2), Locked}
    ELSE IF p = <<Page404>> THEN {Absent, File(1)}
    ELSE IF p = <<SubDir>> THEN {Absent, Directory}
    ELSE IF p = <<SubDir, IndexHtml>> THEN {Absent, File(1), Directory}
    ELSE {Absent, File(1)}

Parent(p) == SubSeq(p, 1, Len(p) - 1)

\* A node exists only inside a directory.
WellFormed(f) ==
    \A p \in NodePaths :
        (f[p] # Absent /\ Len(p) > 1) => f[Parent(p)].kind = "dir"

FileSystems ==
    { f \in [NodePaths -> {Absent, Directory, Locked, File(1), File(2)}] :
        /\ \A p \in NodePaths : f[p] \in KindsAt(p)
        /\ WellFormed(f) }

NodeAt(f, segs) ==
    IF Len(segs) = 0 THEN Directory
    ELSE IF segs \in NodePaths THEN f[segs]
    ELSE Absent

\* Walking down to segs: the error of the first prefix that cannot be passed.
RECURSIVE WalkErr(_, _, _)
WalkErr(f, segs, i) ==
    IF i >= Len(segs) THEN "nil"
    ELSE LET n == NodeAt(f, SubSeq(segs, 1, i))
         IN IF n.kind = "none" THEN "ENOENT"
            ELSE IF n.kind # "dir" THEN "ENOTDIR"
            ELSE WalkErr(f, segs, i + 1)

\* os.Stat(place): needs no permission on the node itself.  A place above
\* the root is some file of the host that is not part of the served tree.
OutsideFile == [kind |-> "file", data |-> 9]

OsStat(f, place) ==
    IF place.up > 0 THEN [err |-> "nil", node |-> OutsideFile]
    ELSE LET e == WalkErr(f, place.segs, 1)
             n == NodeAt(f, place.segs)
         IN IF e # "nil" THEN [err |-> e, node |-> Absent]
            ELSE IF n.kind = "none" THEN [err |-> "ENOENT", node |-> Absent]
            ELSE [err |-> "nil", node |-> n]

\* os.Open(place): as os.Stat, and a file without read permission is EACCES.
OsOpen(f, place) ==
    LET s == OsStat(f, place)
    IN IF s.err = "nil" /\ s.node.kind = "locked"
       THEN [err |-> "EACCES", node |-> Absent]
       ELSE s

\* os.IsNotExist(err)
IsNotExist(err) == err = "ENOENT"

\* Mutant: the error of os.Open is passed on as it is, so a path through a
\* regular file (ENOTDIR) is no longer a missing path.
MapOpenError_asIs(f, err, segs) == err

\* http.Dir's mapOpenError: a not-exist or permission error stays; any other
\* error becomes not-exist when some part of the name, the last included, is
\* not a directory (a path through a regular file, ENOTDIR).
RECURSIVE MapParts(_, _, _, _)
MapParts(f, err, segs, i) ==
    IF i > Len(segs) THEN err
    ELSE LET s == OsStat(f, UnderRoot(SubSeq(segs, 1, i)))
         IN IF s.err # "nil" THEN err
            ELSE IF s.node.kind # "dir" THEN "ENOENT"
            ELSE MapParts(f, err, segs, i + 1)

MapOpenError(f, err, segs) ==
    IF err = "ENOENT" \/ err = "EACCES" THEN err
    ELSE MapParts(f, err, segs, 1)

\* Mutant: the name is joined to the root without path.Clean("/" + name), so
\* ".." segments climb above the root.
DirPlace_noClean(name) == FilepathJoin(name)

\* The place http.Dir(root).Open(name) opens: root joined with
\* path.Clean("/" + name).
DirPlace(name) == UnderRoot(CleanRooted(<<Sl>> \o name))

\* http.Dir(root).Open(name).  fault = "open": the open of a node that could
\* be opened fails for a reason of the host (EMFILE, too many open files).
DirOpen(f, name, fault) ==
    LET place == DirPlace(name)
        o == OsOpen(f, place)
        e == IF o.err = "nil" /\ fault = "open" THEN "EMFILE" ELSE o.err
    IN IF e = "nil" THEN [err |-> "nil", node |-> o.node, place |-> place]
       ELSE [err |-> MapOpenError(f, e, place.segs), node |-> Absent,
             place |-> place]

(*************************** response writer ******************************)

HeaderKeys == {"Location", "Cache-Control", "Last-Modified", "Content-Type"}

NoValue == <<>>

NoHeaders == [k \in HeaderKeys |-> NoValue]

\* A body chunk: a line of text, or the bytes of a file.
Text(s) == [text |-> s, file |-> NoPlace, data |-> 0]

Bytes(place, d) == [text |-> "", file |-> place, data |-> d]

\* An http.ResponseWriter: the live header map, and what was committed by the
\* first WriteHeader (status and a snapshot of the headers); `calls` counts
\* the WriteHeader calls, `opened`, `branch` and `readdir` record what the
\* handler did and what f.Readdir(-1) gave it.
NewWriter ==
    [ committed |-> FALSE, status |-> 0, sent |-> NoHeaders, hdr |-> NoHeaders,
      body |-> <<>>, calls |-> 0, opened |-> <<>>, branch |-> "none",
      readdir |-> <<>> ]

\* w.Header().Set(k, v)
SetHeader(rw, k, v) == [rw EXCEPT !.hdr[k] = v]

\* w.WriteHeader(code): the first call commits the status and the headers set
\* so far; a later call changes nothing.
WriteHeader(rw, code) ==
    IF rw.committed THEN [rw EXCEPT !.calls = @ + 1]
    ELSE [rw EXCEPT !.committed = TRUE, !.status = code, !.sent = rw.hdr,
                    !.calls = @ + 1]

\* w.Write(chunk): commits 200 when nothing was committed yet.
Write(rw, chunk) ==
    LET c == IF rw.committed THEN rw
             ELSE [rw EXCEPT !.committed = TRUE, !.status = 200, !.sent = rw.hdr]
    IN [c EXCEPT !.body = Append(@, chunk)]

\* http.Error(w, msg, code)
HttpError(rw, msg, code) ==
    Write(WriteHeader(SetHeader(rw, "Content-Type",
                                <<"text/plain; charset=utf-8">>), code),
          Text(msg))

\* http.NotFound(w, r)
NotFound(rw) == HttpError(rw, "404 page not found", 404)

Opened(rw, place) == [rw EXCEPT !.opened = Append(@, place)]

Branch(rw, b) == [rw EXCEPT !.branch = b]

\* Mutant: no type is registered for any extension.
TypeByExtension_unregistered(ext) == NoValue

\* mime.TypeByExtension(ext), "" for an extension without a registered type.
TypeByExtension(ext) ==
    IF ext = <<Dot, "html">> \/ ext = <<Dot, "htm">>
    THEN <<"text/html; charset=utf-8">>
    ELSE IF ext = <<Dot, "go">> THEN <<"text/x-go; charset=utf-8">>
    ELSE NoValue

\* The name of a place: its last segment.
BaseName(place) ==
    IF Len(place.segs) = 0 THEN <<Dot>> ELSE place.segs[Len(place.segs)]

\* The time of the last modification of a node, as a header value.
ModTime(place, node) == <<"mtime", node.data>>

\* http.ServeContent(w, r, name, modtime, content) of a plain GET: sets
\* Last-Modified, sets Content-Type when the handler set none (by extension,
\* else sniffed from the content), commits 200 and copies the content.  A
\* directory has no bytes to copy (EISDIR).
ServeContent(rw, place, node) ==
    LET a == SetHeader(rw, "Last-Modified", ModTime(place, node))
        t == TypeByExtension(Ext(BaseName(place)))
        b == IF a.hdr["Content-Type"] # NoValue THEN a
             ELSE SetHeader(a, "Content-Type",
                            IF t # NoValue THEN t ELSE <<"sniffed">>)
        c == WriteHeader(b, 200)
    IN IF node.kind = "file" THEN Write(c, Bytes(place, node.data)) ELSE c

(******************************* handler **********************************)

\* A cacheControl map: for each key, whether the map holds it and its value.
NoEntry == [ok |-> FALSE, v |-> ""]

Entry(v) == [ok |-> TRUE, v |-> v]

Wildcard == <<"*">>

CacheKeys == {<<Dot, "html">>, <<>>, Wildcard}

NoCache == [k \in CacheKeys |-> NoEntry]

Lookup(cc, k) == IF k \in CacheKeys THEN cc[k] ELSE NoEntry

\* Mutant: the wildcard entry is looked up before the exact extension.
CacheControlFor_wildcardFirst(cc, ext) ==
    IF Lookup(cc, Wildcard).ok THEN <<Lookup(cc, Wildcard).v>>
    ELSE IF Lookup(cc, ext).ok THEN <<Lookup(cc, ext).v>>
    ELSE <<"max-age=86400">>

\* The Cache-Control value setCacheHeaders chooses for an extension.
CacheControlFor(cc, ext) ==
    IF Lookup(cc, ext).ok THEN <<Lookup(cc, ext).v>>
    ELSE IF Lookup(cc, Wildcard).ok THEN <<Lookup(cc, Wildcard).v>>
    ELSE <<"max-age=86400">>

\* h.setCacheHeaders(w, r, d)
setCacheHeaders(rw, cc, place, node) ==
    SetHeader(SetHeader(rw, "Cache-Control",
                        CacheControlFor(cc, Ext(BaseName(place)))),
              "Last-Modified", ModTime(place, node))

\* The Content-Type the handler sets from the extension, when it has a type.
SetContentType(rw, place) ==
    LET t == TypeByExtension(Ext(BaseName(place)))
    IN IF t # NoValue THEN SetHeader(rw, "Content-Type", t) ELSE rw

\* h.serveFile(w, r, filePath)
serveFile(rw, cc, f, place) ==
    LET o == OsOpen(f, place)
        a == Opened(rw, place)
    IN IF o.err # "nil" THEN HttpError(a, "Internal Server Error", 500)
       ELSE ServeContent(SetContentType(setCacheHeaders(a, cc, place, o.node),
                                        place),
                         place, o.node)

\* Mutant: the redirect drops the query string.
localRedirect_dropsQuery(rw, query, newPath) ==
    WriteHeader(SetHeader(rw, "Location", newPath), 301)

\* localRedirect(w, r, newPath)
localRedirect(rw, query, newPath) ==
    LET loc == IF query # "" THEN newPath \o <<"?", query>> ELSE newPath
    IN WriteHeader(SetHeader(rw, "Location", loc), 301)

\* The tokens of the served names in the order of their bytes: "." is 0x2E,
\* "4" is 0x34, then the lower-case letters.
TokenOrder == <<Dot, "404", "htm", "html", "index", "sub">>

TokenRank(t) == CHOOSE i \in DOMAIN TokenOrder : TokenOrder[i] = t

\* a < b on strings: the first differing token decides, a proper prefix is
\* smaller.  For the served names this is the order of their bytes.
RECURSIVE NameLess(_, _)
NameLess(a, b) ==
    IF Len(b) = 0 THEN FALSE
    ELSE IF Len(a) = 0 THEN TRUE
    ELSE IF a[1] # b[1] THEN TokenRank(a[1]) < TokenRank(b[1])
    ELSE NameLess(Tail(a), Tail(b))

\* One fs.FileInfo of f.Readdir(-1), and the dirEntry made of it: the name
\* and whether it is a directory.
DirEntry(name, node) == [name |-> name, isDir |-> node.kind = "dir"]

\* The entries of the directory at a place.
EntriesOf(f, place) ==
    { DirEntry(p[Len(p)], f[p]) :
        p \in { q \in NodePaths : /\ place.up = 0
                                  /\ Parent(q) = place.segs
                                  /\ f[q].kind # "none" } }

\* The orders in which f.Readdir(-1) may return the entries of a directory:
\* every order; nothing to return at a place that is no directory.
ReaddirOrders(f, place) ==
    LET es == EntriesOf(f, place)
        n == Cardinality(es)
    IN { q \in [1..n -> es] : \A i, j \in 1..n : i # j => q[i] # q[j] }

\* Mutant: the entries are compared by name only.
dirLess_byNameOnly(a, b) == NameLess(a.name, b.name)

\* The comparison given to sort.Slice: directories first, then by name.
dirLess(a, b) ==
    IF a.isDir /\ ~b.isDir THEN TRUE
    ELSE IF ~a.isDir /\ b.isDir THEN FALSE
    ELSE NameLess(a.name, b.name)

\* sort.Slice on fewer than twelve elements is an insertion sort: each
\* element moves left while it is less than the one before it.
RECURSIVE InsertEntry(_, _)
InsertEntry(sorted, e) ==
    IF Len(sorted) = 0 THEN <<e>>
    ELSE IF dirLess(e, sorted[Len(sorted)])
    THEN Append(InsertEntry(SubSeq(sorted, 1, Len(sorted) - 1), e),
                sorted[Len(sorted)])
    ELSE Append(sorted, e)

RECURSIVE SortSlice(_, _, _)
SortSlice(dirs, i, out) ==
    IF i > Len(dirs) THEN out
    ELSE SortSlice(dirs, i + 1, InsertEntry(out, dirs[i]))

\* A row of the listing: the entry it links to.
Row(place, e) ==
    [ text |-> IF e.isDir THEN "row-dir" ELSE "row-file",
      file |-> UnderRoot(Append(place.segs, e.name)), data |-> 0 ]

ParentRow == Text("../")

RECURSIVE WriteRows(_, _, _, _)
WriteRows(rw, place, entries, i) ==
    IF i > Len(entries) THEN rw
    ELSE WriteRows(Write(rw, Row(place, entries[i])), place, entries, i + 1)

\* tmpl.Execute(w, data): the head of the page, the parent row unless
\* data.Path is "/", a row for each entry, the foot of the page.
\* fault = "render": Execute returns an error once the head is written.
ExecuteTemplate(rw, urlPath, place, entries, fault) ==
    LET a == Write(rw, Text("Index of"))
        b == IF urlPath # <<Sl>> THEN Write(a, ParentRow) ELSE a
    IN IF fault = "render"
       THEN HttpError(b, "Error rendering directory listing", 500)
       ELSE Write(WriteRows(b, place, entries, 1), Text("end of page"))

Readdir(rw, order) == [rw EXCEPT !.readdir = order]

\* h.serveDirectoryListing(w, r, f, d).  order: what f.Readdir(-1) returns;
\* fault = "readdir": f.Readdir(-1) fails.
serveDirectoryListing(rw, urlPath, place, order, fault) ==
    IF fault = "readdir"
    THEN HttpError(rw, "Error reading directory", 500)
    ELSE LET entries == SortSlice(order, 1, <<>>)
             a == SetHeader(Readdir(rw, order), "Content-Type",
                            <<"text/html; charset=utf-8">>)
         IN ExecuteTemplate(a, urlPath, place, entries, fault)

NoHandler ==
    [ made |-> FALSE, err |-> "nil", enableDirListing |-> FALSE,
      indexFiles |-> <<>>, spaMode |-> FALSE, spaIndex |-> NoName,
      errorPage404 |-> NoName, cacheControl |-> NoCache,
      notFoundResponseCode |-> 0 ]

\* Mutant: notFoundResponseCode stays 404 when an error page is configured.
NewHandler_keeps404(f, cfg) ==
    LET s == OsStat(f, FilepathJoin(cfg.errorPage404))
    IN IF cfg.errorPage404 # NoName /\ IsNotExist(s.err)
       THEN [NoHandler EXCEPT !.err = "error page not found"]
       ELSE [ made |-> TRUE, err |-> "nil",
              enableDirListing |-> cfg.enableDirListing,
              indexFiles |-> cfg.indexFiles,
              spaMode |-> cfg.spaMode,
              spaIndex |-> cfg.spaIndex,
              errorPage404 |-> cfg.errorPage404,
              cacheControl |-> cfg.cacheControl,
              notFoundResponseCode |-> 404 ]

\* New(ctx, next, config, name): the handler, or the error of a missing
\* error page.
NewHandler(f, cfg) ==
    LET s == OsStat(f, FilepathJoin(cfg.errorPage404))
    IN IF cfg.errorPage404 # NoName /\ IsNotExist(s.err)
       THEN [NoHandler EXCEPT !.err = "error page not found"]
       ELSE [ made |-> TRUE, err |-> "nil",
              enableDirListing |-> cfg.enableDirListing,
              indexFiles |-> cfg.indexFiles,
              spaMode |-> cfg.spaMode,
              spaIndex |-> cfg.spaIndex,
              errorPage404 |-> cfg.errorPage404,
              cacheControl |-> cfg.cacheControl,
              notFoundResponseCode |->
                  IF cfg.errorPage404 # NoName THEN 200 ELSE 404 ]

\* Mutant: the error page is tried before the SPA fallback.
ServeMissing_errorPageFirst(rw, hh, f) ==
    IF hh.errorPage404 # NoName
    THEN serveFile(WriteHeader(Branch(rw, "ErrorPaging"),
                               hh.notFoundResponseCode),
                   hh.cacheControl, f, FilepathJoin(hh.errorPage404))
    ELSE IF hh.spaMode
    THEN serveFile(Branch(rw, "SpaFallback"), hh.cacheControl, f,
                   FilepathJoin(hh.spaIndex))
    ELSE NotFound(Branch(rw, "NotFoundPlain"))

\* ServeHTTP, the path does not exist (lines 141-157).
ServeMissing(rw, hh, f) ==
    IF hh.spaMode
    THEN serveFile(Branch(rw, "SpaFallback"), hh.cacheControl, f,
                   FilepathJoin(hh.spaIndex))
    ELSE IF hh.errorPage404 # NoName
    THEN serveFile(WriteHeader(Branch(rw, "ErrorPaging"),
                               hh.notFoundResponseCode),
                   hh.cacheControl, f, FilepathJoin(hh.errorPage404))
    ELSE NotFound(Branch(rw, "NotFoundPlain"))

\* ServeHTTP, a directory without an index and without listing (lines 192-200).
ServeNoListing(rw, hh, f) ==
    IF hh.errorPage404 # NoName
    THEN serveFile(WriteHeader(Branch(rw, "DirErrorPaging"),
                               hh.notFoundResponseCode),
                   hh.cacheControl, f, FilepathJoin(hh.errorPage404))
    ELSE NotFound(Branch(rw, "DirNotFoundPlain"))

\* ServeHTTP, the loop over h.indexFiles from entry i on (lines 181-189), and
\* what follows it.
RECURSIVE ProbeIndex(_, _, _, _, _, _, _, _)
ProbeIndex(rw, hh, f, r, upath, dir, i, order) ==
    IF i > Len(hh.indexFiles)
    THEN IF ~hh.enableDirListing THEN ServeNoListing(rw, hh, f)
         ELSE serveDirectoryListing(Branch(rw, "Listing"), r.path, dir, order,
                                    r.fault)
    ELSE LET indexPath == PathJoin(upath, hh.indexFiles[i])
             o == DirOpen(f, indexPath, "none")
             a == Opened(rw, o.place)
         IN IF o.err = "nil"
            THEN localRedirect(Branch(a, "IndexRedirect"), r.query, indexPath)
            ELSE ProbeIndex(a, hh, f, r, upath, dir, i + 1, order)

\* The path ServeHTTP resolves: the request path with a leading slash.
Upath(path) == IF ~HasPrefixSlash(path) THEN <<Sl>> \o path ELSE path

\* h.ServeHTTP(w, r) on a fresh writer.  fault = "stat": f.Stat() fails;
\* order: what f.Readdir(-1) returns when the handler lists the directory.
Serve(hh, f, r, fault, order) ==
    LET upath == Upath(r.path)
        o == DirOpen(f, upath, fault)
        rw == Opened(NewWriter, o.place)
    IN IF o.err # "nil"
       THEN IF IsNotExist(o.err) THEN ServeMissing(rw, hh, f)
            ELSE HttpError(Branch(rw, "Forbidden"), "Forbidden", 403)
       ELSE IF fault = "stat"
       THEN HttpError(Branch(rw, "InternalError"), "Internal Server Error", 500)
       ELSE IF o.node.kind = "dir"
       THEN IF LacksTrailingSlash(r.path)
            THEN localRedirect(Branch(rw, "Redirecting"), r.query,
                               r.path \o <<Sl>>)
            ELSE ProbeIndex(rw, hh, f, r, upath, o.place, 1, order)
       ELSE ServeContent(
                SetContentType(
                    setCacheHeaders(Branch(rw, "Serving"), hh.cacheControl,
                                    o.place, o.node),
                    o.place),
                o.place, o.node)

(***************************** inputs *************************************)

RECURSIVE SeqsUpTo(_, _)
SeqsUpTo(S, n) ==
    IF n = 0 THEN {<<>>}
    ELSE LET shorter == SeqsUpTo(S, n - 1)
         IN shorter \cup { Append(q, x) : q \in shorter, x \in S }

IndexNames == {IndexHtml, IndexHtm}

\* The indexFiles lists: the names in any order, none repeated.
IndexLists ==
    { q \in SeqsUpTo(IndexNames, Cardinality(IndexNames)) :
        \A i, j \in DOMAIN q : i # j => q[i] # q[j] }

\* The map of TestCacheControl, as far as the served names go.
CacheMaps ==
    { [NoCache EXCEPT ![<<Dot, "html">>] = Entry("max-age=3600"),
                      ![Wildcard] = Entry("max-age=600")] }

\* The configurations New is given: CreateConfig's spaIndex, and every
\* combination of the other settings.
Configs ==
    [ enableDirListing : BOOLEAN,
      indexFiles : IndexLists,
      spaMode : BOOLEAN,
      spaIndex : {IndexHtml},
      errorPage404 : {NoName, Page404},
      cacheControl : CacheMaps ]

Segments == {SubDir, IndexHtml, DotDot}

RECURSIVE JoinSegs(_)
JoinSegs(segs) ==
    IF Len(segs) = 0 THEN <<>>
    ELSE IF Len(segs) = 1 THEN segs[1]
    ELSE segs[1] \o <<Sl>> \o JoinSegs(Tail(segs))

\* The request paths: up to MaxSegs segments, with or without a leading and
\* a trailing slash; the empty path is among them.
RequestPaths ==
    { (IF lead THEN <<Sl>> ELSE <<>>) \o JoinSegs(segs)
          \o (IF trail THEN <<Sl>> ELSE <<>>) :
        lead \in BOOLEAN, trail \in BOOLEAN,
        segs \in SeqsUpTo(Segments, MaxSegs) }

Queries == {"", "x=1"}

Faults == {"none", "open", "stat", "readdir", "render"}

NoRequest == [path |-> <<"-">>, query |-> "", fault |-> "none", hops |-> 0]

\* A request: its URL path, its raw query, the fault of the host that its
\* handling meets, if any, and the number of redirects the client followed
\* to make it.  The faults of a listing come with the paths that can reach a
\* listing, rooted and ending in "/".
Requests ==
    { r \in [path : RequestPaths, query : Queries, fault : Faults, hops : {0}] :
        /\ r.fault = "none" \/ r.query = ""
        /\ r.fault \in {"readdir", "render"} =>
              HasPrefixSlash(r.path) /\ ~LacksTrailingSlash(r.path) }

NoPure ==
    [ name |-> NoName, ext |-> <<>>, cc |-> NoCache, out |-> NoHeaders,
      done |-> FALSE ]

(***************************** actions ************************************)

Init ==
    /\ fs \in FileSystems
    /\ h = NoHandler
    /\ req = NoRequest
    /\ w = NewWriter
    /\ pf = NoPure

\* New is called with some configuration.
New ==
    /\ ~h.made
    /\ \E cfg \in Configs : h' = NewHandler(fs, cfg)
    /\ UNCHANGED <<fs, req, w, pf>>

\* A request arrives and ServeHTTP answers it.
ServeHTTP ==
    /\ h.made
    /\ req = NoRequest
    /\ \E r \in Requests :
          \E order \in ReaddirOrders(fs, DirPlace(Upath(r.path))) :
              /\ req' = r
              /\ w' = Serve(h, fs, r, r.fault, order)
    /\ UNCHANGED <<fs, h, pf>>

\* The response is delivered; the handler keeps nothing of the request.
Deliver ==
    /\ req # NoRequest
    /\ req' = NoRequest
    /\ w' = NewWriter
    /\ UNCHANGED <<fs, h, pf>>

\* Between requests the served tree changes: a node is created, removed,
\* rewritten or loses its read permission.
FsChange ==
    /\ req = NoRequest
    /\ \E p \in NodePaths : \E n \in KindsAt(p) :
          /\ n # fs[p]
          /\ WellFormed([fs EXCEPT ![p] = n])
          /\ fs' = [fs EXCEPT ![p] = n]
    /\ UNCHANGED <<h, req, w, pf>>

Next == New \/ ServeHTTP \/ Deliver \/ FsChange

Spec == Init /\ [][Next]_vars

(************************ setCacheHeaders alone ***************************)

CacheValues == {"max-age=3600", "max-age=600"}

AllCacheMaps == [CacheKeys -> {NoEntry} \cup {Entry(v) : v \in CacheValues}]

\* File names, each with the extension it has, written out by hand.
NamedFiles ==
    { [name |-> IndexHtml, ext |-> <<Dot, "html">>],
      [name |-> IndexHtm, ext |-> <<Dot, "htm">>],
      [name |-> Readme, ext |-> <<>>],
      [name |-> <<Dot, "html">>, ext |-> <<Dot, "html">>],
      [name |-> <<"a", Dot, "tar", Dot, "html">>, ext |-> <<Dot, "html">>],
      [name |-> <<"a", Dot, "html", Dot, "gz">>, ext |-> <<Dot, "gz">>] }

\* A file name and a cacheControl map are drawn.
InitCache ==
    /\ fs = [p \in NodePaths |-> Absent]
    /\ h = NoHandler
    /\ req = NoRequest
    /\ w = NewWriter
    /\ \E nf \in NamedFiles, cc \in AllCacheMaps :
          pf = [name |-> nf.name, ext |-> nf.ext, cc |-> cc,
                out |-> NoHeaders, done |-> FALSE]

\* setCacheHeaders is applied to a file of that name.
ApplyCacheHeaders ==
    /\ ~pf.done
    /\ pf' = [pf EXCEPT
                !.out = setCacheHeaders(NewWriter, pf.cc, UnderRoot(<<pf.name>>),
                                        File(1)).hdr,
                !.done = TRUE]
    /\ UNCHANGED <<fs, h, req, w>>

NextCache == ApplyCacheHeaders

SpecCache == InitCache /\ [][NextCache]_vars

(****************************** New alone *********************************)

\* Names given as errorPage404: none, a file of the root, a name below a
\* regular file ("index.html/404.html"), a name inside the subdirectory.
ErrorPages ==
    { NoName, Page404, IndexHtml \o <<Sl>> \o Page404,
      SubDir \o <<Sl>> \o IndexHtml }

ConfigsOfNew ==
    [ enableDirListing : BOOLEAN,
      indexFiles : IndexLists,
      spaMode : BOOLEAN,
      spaIndex : {IndexHtml},
      errorPage404 : ErrorPages,
      cacheControl : CacheMaps ]

\* New is called with a configuration naming any of these error pages.
NewWithErrorPage ==
    /\ ~h.made
    /\ \E cfg \in ConfigsOfNew : h' = NewHandler(fs, cfg)
    /\ UNCHANGED <<fs, req, w, pf>>

NextNew == NewWithErrorPage

SpecNew == Init /\ [][NextNew]_vars

(******************** the older copy of the handler ***********************)

\* src/statiq.go holds a second, older copy of the package (lines 372-610)
\* with the same New, setCacheHeaders and localRedirect.  Its ServeHTTP reads
\* the last byte of the request path without testing its length, joins the
\* index name with filepath.Join (path.Join, on a Unix host), sets no
\* Content-Type of its own and answers a listing with http.ServeContent on
\* the directory.

\* The goroutine panics (index out of range): nothing is written.
Panic(rw) == Branch(rw, "panic")

\* h.serveFile(w, r, filepath), lines 585-601
serveFileLegacy(rw, cc, f, place) ==
    LET o == OsOpen(f, place)
        a == Opened(rw, place)
    IN IF o.err # "nil" THEN HttpError(a, "Internal Server Error", 500)
       ELSE ServeContent(setCacheHeaders(a, cc, place, o.node), place, o.node)

\* ServeHTTP, the path does not exist (lines 489-506).
ServeMissingLegacy(rw, hh, f) ==
    IF hh.spaMode
    THEN serveFileLegacy(Branch(rw, "SpaFallback"), hh.cacheControl, f,
                         FilepathJoin(hh.spaIndex))
    ELSE IF hh.errorPage404 # NoName
    THEN serveFileLegacy(WriteHeader(Branch(rw, "ErrorPaging"),
                                     hh.notFoundResponseCode),
                         hh.cacheControl, f, FilepathJoin(hh.errorPage404))
    ELSE NotFound(Branch(rw, "NotFoundPlain"))

\* ServeHTTP, a directory without an index and without listing (lines 539-547).
ServeNoListingLegacy(rw, hh, f) ==
    IF hh.errorPage404 # NoName
    THEN serveFileLegacy(WriteHeader(Branch(rw, "DirErrorPaging"),
                                     hh.notFoundResponseCode),
                         hh.cacheControl, f, FilepathJoin(hh.errorPage404))
    ELSE NotFound(Branch(rw, "DirNotFoundPlain"))

\* ServeHTTP, the loop over h.indexFiles from entry i on (lines 528-536), and
\* what follows it.
RECURSIVE ProbeIndexLegacy(_, _, _, _, _, _, _, _)
ProbeIndexLegacy(rw, hh, f, r, upath, dir, node, i) ==
    IF i > Len(hh.indexFiles)
    THEN IF ~hh.enableDirListing THEN ServeNoListingLegacy(rw, hh, f)
         ELSE ServeContent(Branch(rw, "Listing"), dir, node)
    ELSE LET indexPath == PathJoin(upath, hh.indexFiles[i])
             o == DirOpen(f, indexPath, "none")
             a == Opened(rw, o.place)
         IN IF o.err = "nil"
            THEN localRedirect(Branch(a, "IndexRedirect"), r.query, indexPath)
            ELSE ProbeIndexLegacy(a, hh, f, r, upath, dir, node, i + 1)

\* h.ServeHTTP(w, r) of the older copy (lines 478-562) on a fresh writer.
ServeLegacy(hh, f, r, fault) ==
    LET upath == Upath(r.path)
        o == DirOpen(f, upath, fault)
        rw == Opened(NewWriter, o.place)
    IN IF o.err # "nil"
       THEN IF IsNotExist(o.err) THEN ServeMissingLegacy(rw, hh, f)
            ELSE HttpError(Branch(rw, "Forbidden"), "Forbidden", 403)
       ELSE IF fault = "stat"
       THEN HttpError(Branch(rw, "InternalError"), "Internal Server Error", 500)
       ELSE IF o.node.kind = "dir"
       THEN IF Len(r.path) = 0 THEN Panic(rw)
            ELSE IF r.path[Len(r.path)] # Sl
            THEN localRedirect(Branch(rw, "Redirecting"), r.query,
                               r.path \o <<Sl>>)
            ELSE ProbeIndexLegacy(rw, hh, f, r, upath, o.place, o.node, 1)
       ELSE ServeContent(setCacheHeaders(Branch(rw, "Serving"), hh.cacheControl,
                                         o.place, o.node),
                         o.place, o.node)

\* A request arrives at a handler of the older copy.
ServeHTTPLegacy ==
    /\ h.made
    /\ req = NoRequest
    /\ \E r \in Requests :
          /\ r.fault \in {"none", "open", "stat"}
          /\ req' = r
          /\ w' = ServeLegacy(h, fs, r, r.fault)
    /\ UNCHANGED <<fs, h, pf>>

NextLegacy == New \/ ServeHTTPLegacy \/ Deliver \/ FsChange

SpecLegacy == Init /\ [][NextLegacy]_vars

(**************************** observations ********************************)

\* A response is at hand: fs is the filesystem the request was answered on.
Answered == req # NoRequest

\* The place the request path names, and what is there.
Target == DirPlace(Upath(req.path))

TargetNode == NodeAt(fs, Target.segs)

\* The request path names nothing: a part of it is missing, or it leads
\* through a regular file.
TargetMissing == OsStat(fs, Target).err \in {"ENOENT", "ENOTDIR"}

TargetIsDir == OsStat(fs, Target).err = "nil" /\ TargetNode.kind = "dir"

TargetIsFile == OsStat(fs, Target).err = "nil" /\ TargetNode.kind = "file"

SpaPlace == UnderRoot(<<h.spaIndex>>)

SpaNode == NodeAt(fs, SpaPlace.segs)

ErrPlace == UnderRoot(<<h.errorPage404>>)

ErrNode == NodeAt(fs, ErrPlace.segs)

WithQuery(path) ==
    IF req.query = "" THEN path ELSE path \o <<"?">> \o <<req.query>>

InternalErrorBody == <<Text("Internal Server Error")>>

(********************* a client following redirects ***********************)

\* Entries of indexFiles beyond file names: the empty string and ".".
FollowIndexLists ==
    IndexLists \cup {<<NoName>>, <<IndexHtml, <<Dot>>>>}

ConfigsOfFollow ==
    [ enableDirListing : BOOLEAN,
      indexFiles : FollowIndexLists,
      spaMode : BOOLEAN,
      spaIndex : {IndexHtml},
      errorPage404 : {NoName},
      cacheControl : CacheMaps ]

NewForClient ==
    /\ ~h.made
    /\ \E cfg \in ConfigsOfFollow : h' = NewHandler(fs, cfg)
    /\ UNCHANGED <<fs, req, w, pf>>

\* The request a client makes for a Location: the path up to "?", the query
\* after it.  The Locations met here are rooted, so none is resolved against
\* the URL of the request before.
RECURSIVE QueryAt(_, _)
QueryAt(loc, i) ==
    IF i > Len(loc) THEN 0
    ELSE IF loc[i] = "?" THEN i
    ELSE QueryAt(loc, i + 1)

RequestOf(loc, hops) ==
    LET q == QueryAt(loc, 1)
    IN [ path |-> IF q = 0 THEN loc ELSE SubSeq(loc, 1, q - 1),
         query |-> IF q = 0 THEN "" ELSE loc[q + 1],
         fault |-> "none", hops |-> hops ]

\* The client's first request: a rooted path, or the empty one.
FirstRequest ==
    /\ h.made
    /\ req = NoRequest
    /\ \E r \in Requests :
          \E order \in ReaddirOrders(fs, DirPlace(Upath(r.path))) :
              /\ r.fault = "none"
              /\ r.path = <<>> \/ HasPrefixSlash(r.path)
              /\ req' = r
              /\ w' = Serve(h, fs, r, "none", order)
    /\ UNCHANGED <<fs, h, pf>>

\* The client requests the Location of the 301 it received.
Follow ==
    /\ Answered
    /\ w.status = 301
    /\ req.hops < MaxHops
    /\ LET r == RequestOf(w.sent["Location"], req.hops + 1)
       IN \E order \in ReaddirOrders(fs, DirPlace(Upath(r.path))) :
              /\ req' = r
              /\ w' = Serve(h, fs, r, "none", order)
    /\ UNCHANGED <<fs, h, pf>>

\* The filesystem does not change while the client follows redirects.
NextFollow == NewForClient \/ FirstRequest \/ Follow \/ Deliver

SpecFollow == Init /\ [][NextFollow]_vars

(******************************* claims ***********************************)

\* C1: a request without a fault whose path names an existing directory and
\* does not end in "/" is answered 301 with Location = the request path as
\* given, "/" appended, then "?" and the raw query when there is one; nothing
\* but the requested path is opened and no body is written.
C1_DirWithoutSlashRedirects ==
    (Answered /\ req.fault = "none" /\ TargetIsDir /\ LacksTrailingSlash(req.path))
    => /\ w.status = 301
       /\ w.sent["Location"] = WithQuery(req.path \o <<Sl>>)
       /\ w.opened = <<Target>>
       /\ w.body = <<>>
       /\ w.calls = 1

C1_Witness ==
    /\ Answered /\ req.fault = "none" /\ TargetIsDir
    /\ req.path = SubDir /\ req.query = "x=1"
    /\ h.spaMode /\ h.enableDirListing /\ Len(h.indexFiles) = 2
    /\ NodeAt(fs, <<SubDir, IndexHtml>>).kind = "file"
    /\ w.status = 301
    /\ w.sent["Location"] = <<"sub", "/", "?", "x=1">>

\* C3 as stated: with spaMode every request for a path that does not exist
\* gets 200 and the current bytes of root/spaIndex, and an existing regular
\* file gets its own bytes.
C3_Original ==
    (Answered /\ h.spaMode /\ req.fault = "none")
    => /\ TargetMissing =>
            /\ w.status = 200
            /\ SpaNode.kind = "file"
            /\ w.body = <<Bytes(SpaPlace, SpaNode.data)>>
       /\ (OsStat(fs, Target).err = "nil" /\ TargetNode.kind \in {"file", "locked"}) =>
            /\ w.status = 200
            /\ w.body = <<Bytes(Target, TargetNode.data)>>

\* C3, amended: with spaMode a request for a path that does not exist gets
\* 200 and the current bytes of root/spaIndex when that is a readable regular
\* file at request time, and 500 "Internal Server Error" when it cannot be
\* opened; a request for an existing readable regular file gets that file's
\* own bytes.
C3_SpaFallback ==
    (Answered /\ h.spaMode /\ req.fault = "none")
    => /\ (TargetMissing /\ SpaNode.kind = "file") =>
            /\ w.status = 200
            /\ w.body = <<Bytes(SpaPlace, SpaNode.data)>>
       /\ (TargetMissing /\ SpaNode.kind \in {"none", "locked"}) =>
            /\ w.status = 500
            /\ w.body = InternalErrorBody
       /\ TargetIsFile =>
            /\ w.status = 200
            /\ w.body = <<Bytes(Target, TargetNode.data)>>

C3_Witness ==
    /\ Answered /\ h.spaMode /\ req.fault = "none" /\ TargetMissing
    /\ req.path = <<Sl>> \o SubDir \o <<Sl>> \o IndexHtml /\ req.query = "x=1"
    /\ h.errorPage404 # NoName
    /\ SpaNode = File(2)
    /\ w.status = 200
    /\ w.body = <<Bytes(UnderRoot(<<IndexHtml>>), 2)>>

ClassifiedMissing ==
    Answered /\ IsNotExist(DirOpen(fs, Upath(req.path), req.fault).err)

ServesFrom(place) == \E i \in DOMAIN w.body : w.body[i].file = place

\* C5: a request classified Missing is answered by the SPA fallback when
\* spaMode is on, else by the error page when errorPage404 is set, else by a
\* plain 404; with both configured root/spaIndex is what is opened and the
\* error page is neither opened nor served.
C5_MissingPriority ==
    ClassifiedMissing
    => /\ h.spaMode =>
            /\ w.branch = "SpaFallback"
            /\ w.opened = <<Target, SpaPlace>>
            /\ (ErrPlace # SpaPlace => ~ServesFrom(ErrPlace))
       /\ (~h.spaMode /\ h.errorPage404 # NoName) =>
            /\ w.branch = "ErrorPaging"
            /\ w.opened = <<Target, ErrPlace>>
       /\ (~h.spaMode /\ h.errorPage404 = NoName) =>
            /\ w.branch = "NotFoundPlain"
            /\ w.opened = <<Target>>
            /\ w.status = 404
            /\ w.body = <<Text("404 page not found")>>

C5_Witness ==
    /\ ClassifiedMissing /\ h.spaMode /\ h.errorPage404 = Page404
    /\ ErrNode = File(1) /\ SpaNode = File(1)
    /\ w.status = 200
    /\ w.body = <<Bytes(UnderRoot(<<IndexHtml>>), 1)>>

\* The configured index entries that exist as regular files in the requested
\* directory, by their position in h.indexFiles.
IndexNode(i) == NodeAt(fs, Target.segs \o <<h.indexFiles[i]>>)

FileEntries == { i \in DOMAIN h.indexFiles : IndexNode(i).kind \in {"file", "locked"} }

FirstFileEntry == CHOOSE i \in FileEntries : \A j \in FileEntries : i <= j

DirWithSlash ==
    Answered /\ req.fault = "none" /\ TargetIsDir /\ ~LacksTrailingSlash(req.path)

\* C2: a request for an existing directory, with a trailing slash, in which
\* some indexFiles entry exists as a file is answered 301 with Location = the
\* directory's path + the first such entry in configured order, and nothing
\* is served or listed.
C2_FirstIndexFileWins ==
    (DirWithSlash /\ FileEntries # {})
    => /\ w.status = 301
       /\ w.sent["Location"] =
              WithQuery(RootedPath(Target.segs \o <<h.indexFiles[FirstFileEntry]>>))
       /\ w.body = <<>>

\* What the client receives: the status, the committed headers and the body.
Observable(rw) == <<rw.status, rw.sent, rw.body>>

\* The answer to a request, under the same configuration and filesystem, for
\* a path that does not exist.
MissingResponse ==
    Serve(h, fs, [path |-> <<Sl>> \o Nope, query |-> "", fault |-> "none",
                  hops |-> 0],
          "none", <<>>)

\* C6: a request for an existing directory, with a trailing slash, without
\* any existing index entry and with listing disabled is answered exactly as
\* a request for a path that does not exist: the SPA fallback with spaMode,
\* else the error page with 200, else a plain 404.
C6_NoListingIsMissing ==
    ( /\ DirWithSlash
      /\ \A i \in DOMAIN h.indexFiles : IndexNode(i).kind = "none"
      /\ ~h.enableDirListing )
    => Observable(w) = Observable(MissingResponse)

\* C7: setCacheHeaders sets Cache-Control to the map's entry for the file's
\* extension when it has one (the empty extension included), else to its "*"
\* entry when it has one, else to "max-age=86400"; and it sets Last-Modified.
C7_CachePrecedence ==
    pf.done
    => LET exact == IF pf.ext \in CacheKeys THEN pf.cc[pf.ext] ELSE NoEntry
           wild == pf.cc[Wildcard]
       IN /\ exact.ok => pf.out["Cache-Control"] = <<exact.v>>
          /\ (~exact.ok /\ wild.ok) => pf.out["Cache-Control"] = <<wild.v>>
          /\ (~exact.ok /\ ~wild.ok) => pf.out["Cache-Control"] = <<"max-age=86400">>
          /\ pf.out["Last-Modified"] # NoValue

C7_Witness ==
    /\ pf.done
    /\ pf.name = <<"a", Dot, "tar", Dot, "html">>
    /\ pf.cc[<<Dot, "html">>] = Entry("max-age=3600")
    /\ pf.cc[Wildcard] = Entry("max-age=600")
    /\ pf.out["Cache-Control"] = <<"max-age=3600">>

\* The body holds bytes of a file.
ServesFileBytes ==
    \E i \in DOMAIN w.body : w.body[i].text = "" /\ w.body[i].file # NoPlace

\* C8: every response that serves a file's bytes with status 200 carries
\* Cache-Control and Last-Modified among the headers it was committed with.
C8_FileServeHasCacheHeaders ==
    (Answered /\ w.status = 200 /\ ServesFileBytes)
    => /\ w.sent["Cache-Control"] # NoValue
       /\ w.sent["Last-Modified"] # NoValue

\* C9: a path that does not exist is routed as Missing; an open refused for
\* lack of permission is answered 403; an open or a stat that fails for any
\* other reason is answered 500; the 403 and 500 bodies are fixed texts.
C9_ErrorClassification ==
    Answered
    => /\ TargetMissing =>
            w.branch \in {"SpaFallback", "ErrorPaging", "NotFoundPlain"}
       /\ (OsStat(fs, Target).err = "nil" /\ TargetNode.kind = "locked") =>
            /\ w.status = 403
            /\ w.body = <<Text("Forbidden")>>
       /\ (OsOpen(fs, Target).err = "nil" /\ req.fault \in {"open", "stat"}) =>
            /\ w.status = 500
            /\ w.body = InternalErrorBody

IsRow(c) == c.text \in {"row-dir", "row-file"}

ListedRows == SelectSeq(w.body, IsRow)

\* The served names in ascending order of their bytes, written out by hand:
\* "404.html" < "index.htm" < "index.html" < "sub".
NamesAscending == <<Page404, IndexHtm, IndexHtml, SubDir>>

NamePos(name) == CHOOSE i \in DOMAIN NamesAscending : NamesAscending[i] = name

RowName(c) == c.file.segs[Len(c.file.segs)]

\* The request reaches the listing: an existing directory, requested with a
\* trailing slash, of which no index entry can be opened, listing enabled.
ListingCase ==
    /\ DirWithSlash
    /\ h.enableDirListing
    /\ \A i \in DOMAIN h.indexFiles : IndexNode(i).kind \in {"none", "locked"}

\* C11: whatever order the filesystem enumerates the entries in, the listing
\* is answered 200 with Content-Type "text/html; charset=utf-8" and has one
\* row for every entry of the directory and no other row, every directory
\* before every file, and the names ascending within each of the two groups.
C11_ListingSorted ==
    ListingCase
    => /\ w.status = 200
       /\ w.sent["Content-Type"] = <<"text/html; charset=utf-8">>
       /\ w.readdir \in ReaddirOrders(fs, Target)
       /\ Len(ListedRows) = Cardinality(EntriesOf(fs, Target))
       /\ \A e \in EntriesOf(fs, Target) :
              Cardinality({ i \in DOMAIN ListedRows :
                              ListedRows[i] = Row(Target, e) }) = 1
       /\ \A i, j \in DOMAIN ListedRows :
              i < j =>
                /\ ~(ListedRows[i].text = "row-file" /\ ListedRows[j].text = "row-dir")
                /\ ListedRows[i].text = ListedRows[j].text =>
                       NamePos(RowName(ListedRows[i])) < NamePos(RowName(ListedRows[j]))

C11_Witness ==
    /\ ListingCase
    /\ req.path = <<Sl>>
    /\ Len(w.readdir) = 3
    /\ w.readdir[1].name = IndexHtml
    /\ w.readdir[2].name = Page404
    /\ w.readdir[3].name = SubDir
    /\ ListedRows = << Row(Target, DirEntry(SubDir, Directory)),
                       Row(Target, DirEntry(Page404, File(1))),
                       Row(Target, DirEntry(IndexHtml, fs[<<IndexHtml>>])) >>

HasParentRow == \E i \in DOMAIN w.body : w.body[i] = ParentRow

\* C12: a listing has the "../" row exactly when the listed directory is not
\* the root, however the request path spells the directory ("//" and
\* "/sub/../" are the root).
C12_ParentRowOnlyBelowRoot ==
    ListingCase => (HasParentRow <=> Target.segs # <<>>)

\* C13: a request without a fault for a path that names an existing readable
\* regular file is answered 200 with exactly the bytes the file holds at the
\* time of the request and the Content-Type of its extension (the files of
\* the tree end in ".html": "text/html; charset=utf-8"), whatever spaMode,
\* errorPage404 and enableDirListing are.
C13_FileServed ==
    (Answered /\ req.fault = "none" /\ TargetIsFile)
    => /\ w.status = 200
       /\ w.body = <<Bytes(Target, TargetNode.data)>>
       /\ w.sent["Content-Type"] = <<"text/html; charset=utf-8">>

C13_Witness ==
    /\ Answered /\ req.fault = "none" /\ TargetIsFile
    /\ req.path = <<Sl>> \o IndexHtml /\ req.query = "x=1"
    /\ h.spaMode /\ h.errorPage404 = Page404 /\ h.enableDirListing
    /\ fs[<<IndexHtml>>] = File(2)
    /\ w.status = 200
    /\ w.body = <<Bytes(UnderRoot(<<IndexHtml>>), 2)>>
    /\ w.sent["Content-Type"] = <<"text/html; charset=utf-8">>

\* C14: a handler exists only with an error page that exists under the root
\* when New returns it (the filesystem does not change after New here), and
\* a failed New leaves no handler.
C14_ErrorPageVerified ==
    /\ (h.made /\ h.errorPage404 # NoName)
       => /\ FilepathJoin(h.errorPage404).up = 0
          /\ OsStat(fs, FilepathJoin(h.errorPage404)).err = "nil"
    /\ h.err # "nil" => ~h.made

HasText(t) == \E i \in DOMAIN w.body : w.body[i] = Text(t)

\* C15: every request gets one committed response: WriteHeader is called at
\* most once, and the text of a failure is delivered only under the status
\* of that failure, also when the failure comes after a status was chosen.
C15_OneResponse ==
    Answered
    => /\ w.committed
       /\ w.calls <= 1
       /\ HasText("Internal Server Error") => w.status = 500
       /\ HasText("Error rendering directory listing") => w.status = 500
       /\ HasText("Error reading directory") => w.status = 500
       /\ HasText("Forbidden") => w.status = 403
       /\ HasText("404 page not found") => w.status = 404

\* C16: a request with the empty URL path, handled without a fault, is
\* answered as a request for the root directory without a trailing slash:
\* 301 with Location "/" (and the query); the handler does not panic.
C16_EmptyPathRedirects ==
    (Answered /\ req.path = <<>> /\ req.fault = "none")
    => /\ w.branch # "panic"
       /\ w.committed
       /\ w.status = 301
       /\ w.sent["Location"] = WithQuery(<<Sl>>)

\* What the client holds after following one more redirect, if there is one.
FollowOnce(rw) ==
    IF rw.status = 301
    THEN Serve(h, fs, RequestOf(rw.sent["Location"], 0), "none", <<>>)
    ELSE rw

\* C17: a client that re-requests the Location of every 301 receives an
\* answer that is not a 301 before it has followed MaxHops redirects; and a
\* first request for an existing directory whose first existing index entry
\* is a readable regular file leads, after at most two redirects, to 200 with
\* the bytes of that file.
C17_RedirectsConverge ==
    /\ (Answered /\ w.status = 301) => req.hops < MaxHops
    /\ ( /\ Answered /\ req.hops = 0 /\ req.fault = "none" /\ TargetIsDir
         /\ \E i \in DOMAIN h.indexFiles : IndexNode(i).kind # "none"
         /\ \A i \in DOMAIN h.indexFiles :
               (IndexNode(i).kind # "none" /\
                \A j \in 1..(i - 1) : IndexNode(j).kind = "none")
               => IndexNode(i).kind = "file" )
       => LET i == CHOOSE i \in DOMAIN h.indexFiles :
                       /\ IndexNode(i).kind # "none"
                       /\ \A j \in 1..(i - 1) : IndexNode(j).kind = "none"
              last == FollowOnce(FollowOnce(w))
          IN /\ last.status = 200
             /\ last.body = <<Bytes(UnderRoot(Target.segs \o <<h.indexFiles[i]>>),
                                     IndexNode(i).data)>>

====
